---- MODULE Spec2Model ----
(***************************************************************************)
(* Restaurant management API (users, restaurants, JWT authentication).     *)
(*                                                                         *)
(* The store is the two MySQL tables behind the repositories.  A request   *)
(* is handled by a chain of steps, one step per repository call, written   *)
(* as the pure function Step on (store, request context).  Spec runs each  *)
(* handler to completion in one action; SpecConc interleaves the steps of  *)
(* the requests in flight; SpecClock adds the passing of time.             *)
(* Request bodies and path ids are those that pass Bind, ParseUint and     *)
(* validator.Struct (the boundary layer), but for the role of an           *)
(* UpdateUserRequest, whose validation is modelled.                        *)
(***************************************************************************)
EXTENDS Integers, Sequences, FiniteSets, TLC

VARIABLES users, restaurants, issued, now, reqs
vars == <<users, restaurants, issued, now, reqs>>

---------------------------------------------------------------------------
(* Bounds *)
MaxUsers == 2          \* user ids a request may name / rows in users
MaxRestaurants == 1    \* rows in restaurants
MaxTokens == 2         \* tokens handed out by Login
MaxClock == 36         \* last hour the clock reaches
ClockStep == 12        \* hours between two observations of the clock

(* Program constants *)
TokenTTL == 24         \* hours, generateToken
JWTSecret == "your_secret_key"
AdminRole == "admin"
UserRole == "user"

UserIds == 1..MaxUsers
RestaurantIds == 1..MaxRestaurants
Emails == {"e1", "e2"}
Slots == {1, 2}

---------------------------------------------------------------------------
(* Values *)
NilUser == [id |-> 0, name |-> "", email |-> "", password |-> <<>>,
            role |-> "", deleted |-> FALSE]
NilRestaurant == [id |-> 0, name |-> "", description |-> "", address |-> "",
                  phone |-> "", user_id |-> 0, deleted |-> FALSE]
NilClaims == [user_id |-> 0, email |-> "", role |-> "", exp |-> 0, key |-> ""]
NoHeader == [kind |-> "none", token |-> NilClaims]
BasicHeader == [kind |-> "basic", token |-> NilClaims]
Bearer(t) == [kind |-> "bearer", token |-> t]
NoBody == [name |-> "", email |-> "", password |-> "", role |-> "",
           description |-> "", address |-> "", phone |-> ""]
NoResp == [status |-> "", message |-> "", detail |-> "", data |-> {}]
Idle == [pc |-> "idle", op |-> "", hdr |-> NoHeader, uid |-> 0, rid |-> 0,
         body |-> NoBody, claims |-> NilClaims, user |-> NilUser,
         rest |-> NilRestaurant, resp |-> NoResp]
NewRequest(op, hdr, uid, rid, body) ==
    [Idle EXCEPT !.pc = "start", !.op = op, !.hdr = hdr, !.uid = uid,
                 !.rid = rid, !.body = body]

NewErrorResponse(status, message, detail) ==
    [status |-> status, message |-> message, detail |-> detail, data |-> {}]
NewSuccessResponse(status, message, data) ==
    [status |-> status, message |-> message, detail |-> "", data |-> data]
Return(c, resp) == [c EXCEPT !.pc = "done", !.resp = resp]
Goto(c, pc) == [c EXCEPT !.pc = pc]
Out(st, c) == [st |-> st, c |-> c]

UserToResponse(u) == [id |-> u.id, name |-> u.name, email |-> u.email, role |-> u.role]
RestaurantToResponse(r) ==
    [id |-> r.id, name |-> r.name, description |-> r.description,
     address |-> r.address, phone |-> r.phone, user_id |-> r.user_id]

---------------------------------------------------------------------------
(* utils: password hashing *)
HashPassword(p) == <<"bcrypt", p>>
CheckPasswordHash(p, h) == h = HashPassword(p)

---------------------------------------------------------------------------
(* UserRepository over the users table (soft delete, unique email index) *)
UserGetByID(U, id) ==
    IF id \in 1..Len(U) /\ ~U[id].deleted THEN U[id] ELSE NilUser
UserGetByEmail(U, email) ==
    IF \E i \in 1..Len(U) : U[i].email = email /\ ~U[i].deleted
    THEN U[CHOOSE i \in 1..Len(U) : U[i].email = email /\ ~U[i].deleted]
    ELSE NilUser
\* a users table without the unique index
EmailIndexAllows_NoIndex(U, id, email) == TRUE
\* the unique index on users.email covers every row, soft-deleted ones too
EmailIndexAllows(U, id, email) ==
    \A i \in 1..Len(U) : i # id => U[i].email # email
\* Create: INSERT; returns the new table, or the table unchanged on an error
UserCreate(U, u) ==
    IF EmailIndexAllows(U, 0, u.email)
    THEN [ok |-> TRUE, users |-> Append(U, [u EXCEPT !.id = Len(U) + 1]),
          user |-> [u EXCEPT !.id = Len(U) + 1]]
    ELSE [ok |-> FALSE, users |-> U, user |-> NilUser]
\* Update: db.Save writes every column of the row with u's primary key (an
\* UPDATE, and when that matches no live row an INSERT .. ON DUPLICATE KEY
\* UPDATE of all columns, deleted_at included)
UserUpdate(U, u) ==
    IF EmailIndexAllows(U, u.id, u.email)
    THEN [ok |-> TRUE, users |-> [U EXCEPT ![u.id] = u], user |-> u]
    ELSE [ok |-> FALSE, users |-> U, user |-> NilUser]
\* Delete: sets the soft-delete marker of the row
UserDelete(U, id) ==
    IF id \in 1..Len(U) /\ ~U[id].deleted
    THEN [U EXCEPT ![id].deleted = TRUE] ELSE U

---------------------------------------------------------------------------
(* RestaurantRepository over the restaurants table (soft delete) *)
RestaurantGetByID(R, id) ==
    IF id \in 1..Len(R) /\ ~R[id].deleted THEN R[id] ELSE NilRestaurant
\* GetByUserID reading the soft-deleted rows too
RestaurantGetByUserID_Unscoped(R, userID) ==
    {R[i] : i \in {j \in 1..Len(R) : R[j].user_id = userID}}
RestaurantGetByUserID(R, userID) ==
    {R[i] : i \in {j \in 1..Len(R) : R[j].user_id = userID /\ ~R[j].deleted}}
RestaurantCreate(R, r) == Append(R, [r EXCEPT !.id = Len(R) + 1])
\* Update: db.Save writes every column of the row with r's primary key (an
\* UPDATE, and when that matches no live row an INSERT .. ON DUPLICATE KEY
\* UPDATE of all columns, deleted_at included)
RestaurantUpdate(R, r) == [R EXCEPT ![r.id] = r]
RestaurantDelete(R, id) ==
    IF id \in 1..Len(R) /\ ~R[id].deleted
    THEN [R EXCEPT ![id].deleted = TRUE] ELSE R

---------------------------------------------------------------------------
(* JWT: tokens, the middleware and the claims it leaves in the context *)
\* the expiry computed without the current time
generateToken_NoClock(user, t) ==
    [user_id |-> user.id, email |-> user.email, role |-> user.role,
     exp |-> TokenTTL, key |-> JWTSecret]
generateToken(user, t) ==
    [user_id |-> user.id, email |-> user.email, role |-> user.role,
     exp |-> t + TokenTTL, key |-> JWTSecret]
\* ParseWithClaims without the signature check
ParseWithClaims_NoSignature(token, t) == t <= token.exp
\* ParseWithClaims without the expiry check
ParseWithClaims_NoExpiry(token, t) == token.key = JWTSecret
\* jwt.ParseWithClaims: HMAC signature under the server secret, and
\* StandardClaims.Valid, which accepts a token while now <= ExpiresAt
ParseWithClaims(token, t) == token.key = JWTSecret /\ t <= token.exp
ValidateToken(token, t) ==
    IF ParseWithClaims(token, t) THEN [err |-> FALSE, claims |-> token]
    ELSE [err |-> TRUE, claims |-> NilClaims]
JWTError(hdr, t) ==
    IF hdr.kind = "none" THEN "Authorization header is required"
    ELSE IF hdr.kind # "bearer"
    THEN "Invalid authorization format, expected 'Bearer TOKEN'"
    ELSE IF ~ParseWithClaims(hdr.token, t) THEN "Invalid or expired token"
    ELSE ""
ExtractTokenClaims(c) == c.hdr.token
\* the middleware: the 401 response, or the context handed to next(c)
JWT(st, c) ==
    IF JWTError(c.hdr, st.now) # ""
    THEN Out(st, Return(c, NewErrorResponse("Unauthorized", JWTError(c.hdr, st.now), "")))
    ELSE Out(st, [c EXCEPT !.claims = ExtractTokenClaims(c)])

PermissionDenied(c, detail) ==
    Return(c, NewErrorResponse("Forbidden", "Permission denied", detail))
UserNotFound(c) ==
    Return(c, NewErrorResponse("NotFound", "User not found", "The requested user does not exist"))
RestaurantNotFound(c) ==
    Return(c, NewErrorResponse("NotFound", "Restaurant not found",
                               "The requested restaurant does not exist"))
\* the rule on a path user id without the admin clause
MayActOnUser_OwnerOnly(claims, id) == claims.user_id = id
\* the owner-or-admin rule on a path user id
MayActOnUser(claims, id) == claims.user_id = id \/ claims.role = AdminRole
\* the rule on a restaurant with any role passing for admin
MayActOnRestaurant_AnyRole(claims, restaurant) ==
    restaurant.user_id = claims.user_id \/ claims.role # ""
\* the owner-or-admin rule on a restaurant read from the store
MayActOnRestaurant(claims, restaurant) ==
    restaurant.user_id = claims.user_id \/ claims.role = "admin"

---------------------------------------------------------------------------
(* AuthHandler / AuthService *)
\* Register without the lookup by email
Register_start_NoLookup(st, c) ==
    Out(st, [c EXCEPT !.pc = "create",
                      !.user = [NilUser EXCEPT !.name = c.body.name,
                                               !.email = c.body.email,
                                               !.password = HashPassword(c.body.password),
                                               !.role = "user"]])
\* Register taking the role from the body when it carries one
Register_start_RoleFromBody(st, c) ==
    LET existingUser == UserGetByEmail(st.users, c.body.email) IN
    IF existingUser.id # 0
    THEN Out(st, Return(c, NewErrorResponse("InternalServerError", "Failed to register user",
                                            "user with this email already exists")))
    ELSE Out(st, [c EXCEPT !.pc = "create",
                           !.user = [NilUser EXCEPT !.name = c.body.name,
                                                    !.email = c.body.email,
                                                    !.password = HashPassword(c.body.password),
                                                    !.role = IF c.body.role # ""
                                                             THEN c.body.role ELSE "user"]])
Register_start(st, c) ==
    LET existingUser == UserGetByEmail(st.users, c.body.email) IN
    IF existingUser.id # 0
    THEN Out(st, Return(c, NewErrorResponse("InternalServerError", "Failed to register user",
                                            "user with this email already exists")))
    ELSE Out(st, [c EXCEPT !.pc = "create",
                           !.user = [NilUser EXCEPT !.name = c.body.name,
                                                    !.email = c.body.email,
                                                    !.password = HashPassword(c.body.password),
                                                    !.role = "user"]])
Register_create(st, c) ==
    LET r == UserCreate(st.users, c.user) IN
    IF ~r.ok
    THEN Out(st, Return(c, NewErrorResponse("InternalServerError", "Failed to register user",
                                            "Duplicate entry")))
    ELSE Out([st EXCEPT !.users = r.users],
             Return(c, NewSuccessResponse("Created", "User registered successfully",
                                          {UserToResponse(r.user)})))
\* Login without the password check
Login_start_NoPassword(st, c) ==
    LET user == UserGetByEmail(st.users, c.body.email) IN
    IF user.id = 0
    THEN Out(st, Return(c, NewErrorResponse("Unauthorized", "Authentication failed",
                                            "invalid email or password")))
    ELSE Out([st EXCEPT !.issued = @ \cup {generateToken(user, st.now)}],
             Return(c, NewSuccessResponse("OK", "Login successful",
                        {[user |-> UserToResponse(user), token |-> generateToken(user, st.now)]})))
Login_start(st, c) ==
    LET user == UserGetByEmail(st.users, c.body.email) IN
    IF user.id = 0 \/ ~CheckPasswordHash(c.body.password, user.password)
    THEN Out(st, Return(c, NewErrorResponse("Unauthorized", "Authentication failed",
                                            "invalid email or password")))
    ELSE Out([st EXCEPT !.issued = @ \cup {generateToken(user, st.now)}],
             Return(c, NewSuccessResponse("OK", "Login successful",
                        {[user |-> UserToResponse(user), token |-> generateToken(user, st.now)]})))

---------------------------------------------------------------------------
(* UserHandler / UserService *)
GetUser_start(st, c) ==
    IF ~MayActOnUser(c.claims, c.uid)
    THEN Out(st, PermissionDenied(c, "You don't have permission to access this resource"))
    ELSE LET user == UserGetByID(st.users, c.uid) IN
         IF user.id = 0 THEN Out(st, UserNotFound(c))
         ELSE Out(st, Return(c, NewSuccessResponse("OK", "User retrieved successfully",
                                                   {UserToResponse(user)})))
\* UserService.UpdateUser storing whatever role the request carries
UpdateUser_fields_AnyRole(st, c, user) ==
    LET u1 == IF c.body.password # ""
              THEN [user EXCEPT !.password = HashPassword(c.body.password)] ELSE user
    IN Out(st, [c EXCEPT !.pc = "save",
                         !.user = IF c.body.role # ""
                                  THEN [u1 EXCEPT !.role = c.body.role] ELSE u1])
\* UserService.UpdateUser from the password field on
UpdateUser_fields(st, c, user) ==
    LET u1 == IF c.body.password # ""
              THEN [user EXCEPT !.password = HashPassword(c.body.password)] ELSE user
    IN IF c.body.role # "" /\ c.body.role # "admin" /\ c.body.role # "user"
       THEN Out(st, Return(c, NewErrorResponse("InternalServerError", "Failed to update user",
                                               "invalid role")))
       ELSE Out(st, [c EXCEPT !.pc = "save",
                              !.user = IF c.body.role # ""
                                       THEN [u1 EXCEPT !.role = c.body.role] ELSE u1])
\* the role check applied only to updates of another user
RoleChangeDenied_OthersOnly(c) ==
    c.body.role # "" /\ c.claims.role # AdminRole /\ c.claims.user_id # c.uid
\* a handler without the role check
RoleChangeDenied_Unchecked(c) == FALSE
\* "Check if trying to update role while not being an admin"
RoleChangeDenied(c) == c.body.role # "" /\ c.claims.role # AdminRole
\* validator.Struct on UpdateUserRequest: role is empty or one of admin, user
ValidateUpdateUser(body) == body.role = "" \/ body.role \in {"admin", "user"}
UpdateUser_start(st, c) ==
    IF ~ValidateUpdateUser(c.body)
    THEN Out(st, Return(c, NewErrorResponse("BadRequest", "Validation failed", "Role oneof")))
    ELSE IF RoleChangeDenied(c)
    THEN Out(st, PermissionDenied(c, "Only admins can change user roles"))
    ELSE IF ~MayActOnUser(c.claims, c.uid)
    THEN Out(st, PermissionDenied(c, "You don't have permission to update this user"))
    ELSE LET user == UserGetByID(st.users, c.uid)
             u1 == IF c.body.name # "" THEN [user EXCEPT !.name = c.body.name] ELSE user
         IN IF user.id = 0 THEN Out(st, UserNotFound(c))
            ELSE IF c.body.email # "" /\ c.body.email # user.email
            THEN Out(st, [c EXCEPT !.pc = "email", !.user = u1])
            ELSE UpdateUser_fields(st, c, u1)
\* the email check that forgets to compare the holder's id
UpdateUser_email_AnyHolder(st, c) ==
    LET existingUser == UserGetByEmail(st.users, c.body.email) IN
    IF existingUser.id # 0 /\ existingUser.id = c.uid
    THEN Out(st, Return(c, NewErrorResponse("InternalServerError", "Failed to update user",
                                            "email already in use")))
    ELSE UpdateUser_fields(st, c, [c.user EXCEPT !.email = c.body.email])
UpdateUser_email(st, c) ==
    LET existingUser == UserGetByEmail(st.users, c.body.email) IN
    IF existingUser.id # 0 /\ existingUser.id # c.uid
    THEN Out(st, Return(c, NewErrorResponse("InternalServerError", "Failed to update user",
                                            "email already in use")))
    ELSE UpdateUser_fields(st, c, [c.user EXCEPT !.email = c.body.email])
\* a save that, refused by the email index, still writes the other columns
UpdateUser_save_Partial(st, c) ==
    LET r == UserUpdate(st.users, c.user) IN
    IF ~r.ok
    THEN Out([st EXCEPT !.users[c.uid] = [c.user EXCEPT !.email = st.users[c.uid].email]],
             Return(c, NewErrorResponse("InternalServerError", "Failed to update user",
                                        "Duplicate entry")))
    ELSE Out([st EXCEPT !.users = r.users],
             Return(c, NewSuccessResponse("OK", "User updated successfully",
                                          {UserToResponse(r.user)})))
UpdateUser_save(st, c) ==
    LET r == UserUpdate(st.users, c.user) IN
    IF ~r.ok
    THEN Out(st, Return(c, NewErrorResponse("InternalServerError", "Failed to update user",
                                            "Duplicate entry")))
    ELSE Out([st EXCEPT !.users = r.users],
             Return(c, NewSuccessResponse("OK", "User updated successfully",
                                          {UserToResponse(r.user)})))
\* DeleteUser without the lookup of the user
DeleteUser_start_NoLookup(st, c) ==
    IF ~MayActOnUser(c.claims, c.uid)
    THEN Out(st, PermissionDenied(c, "You don't have permission to delete this user"))
    ELSE Out(st, Goto(c, "delete"))
DeleteUser_start(st, c) ==
    IF ~MayActOnUser(c.claims, c.uid)
    THEN Out(st, PermissionDenied(c, "You don't have permission to delete this user"))
    ELSE IF UserGetByID(st.users, c.uid).id = 0 THEN Out(st, UserNotFound(c))
    ELSE Out(st, Goto(c, "delete"))
DeleteUser_delete(st, c) ==
    Out([st EXCEPT !.users = UserDelete(st.users, c.uid)],
        Return(c, NewSuccessResponse("OK", "User deleted successfully", {})))

---------------------------------------------------------------------------
(* RestaurantHandler / RestaurantService *)
GetUserRestaurants_start(st, c) ==
    IF ~MayActOnUser(c.claims, c.uid)
    THEN Out(st, PermissionDenied(c, "You don't have permission to access this resource"))
    ELSE IF UserGetByID(st.users, c.uid).id = 0 THEN Out(st, UserNotFound(c))
    ELSE Out(st, Goto(c, "list"))
GetUserRestaurants_list(st, c) ==
    Out(st, Return(c, NewSuccessResponse("OK", "Restaurants retrieved successfully",
            {RestaurantToResponse(r) : r \in RestaurantGetByUserID(st.restaurants, c.uid)})))
GetUserRestaurant_start(st, c) ==
    IF ~MayActOnUser(c.claims, c.uid)
    THEN Out(st, PermissionDenied(c, "You don't have permission to access this resource"))
    ELSE IF UserGetByID(st.users, c.uid).id = 0 THEN Out(st, UserNotFound(c))
    ELSE Out(st, Goto(c, "get"))
\* GetRestaurantByID without the comparison of the owner with the path user
GetUserRestaurant_get_AnyOwner(st, c) ==
    LET restaurant == RestaurantGetByID(st.restaurants, c.rid) IN
    IF restaurant.id = 0
    THEN Out(st, RestaurantNotFound(c))
    ELSE Out(st, Return(c, NewSuccessResponse("OK", "Restaurant retrieved successfully",
                                              {RestaurantToResponse(restaurant)})))
GetUserRestaurant_get(st, c) ==
    LET restaurant == RestaurantGetByID(st.restaurants, c.rid) IN
    IF restaurant.id = 0 \/ restaurant.user_id # c.uid
    THEN Out(st, RestaurantNotFound(c))
    ELSE Out(st, Return(c, NewSuccessResponse("OK", "Restaurant retrieved successfully",
                                              {RestaurantToResponse(restaurant)})))
\* CreateRestaurant without the lookup of the caller's user
CreateRestaurant_start_NoUserCheck(st, c) ==
    Out(st, [c EXCEPT !.pc = "create",
                      !.rest = [NilRestaurant EXCEPT
                                   !.name = c.body.name,
                                   !.description = c.body.description,
                                   !.address = c.body.address,
                                   !.phone = c.body.phone,
                                   !.user_id = c.claims.user_id]])
CreateRestaurant_start(st, c) ==
    IF UserGetByID(st.users, c.claims.user_id).id = 0
    THEN Out(st, Return(c, NewErrorResponse("NotFound", "User not found",
                                            "The user does not exist")))
    ELSE Out(st, [c EXCEPT !.pc = "create",
                           !.rest = [NilRestaurant EXCEPT
                                        !.name = c.body.name,
                                        !.description = c.body.description,
                                        !.address = c.body.address,
                                        !.phone = c.body.phone,
                                        !.user_id = c.claims.user_id]])
CreateRestaurant_create(st, c) ==
    LET R == RestaurantCreate(st.restaurants, c.rest) IN
    Out([st EXCEPT !.restaurants = R],
        Return(c, NewSuccessResponse("Created", "Restaurant created successfully",
                                     {RestaurantToResponse(R[Len(R)])})))
\* the ownership check made before the lookup's result is looked at
CheckOwnership_CheckFirst(st, c, detail) ==
    LET restaurant == RestaurantGetByID(st.restaurants, c.rid) IN
    IF ~MayActOnRestaurant(c.claims, restaurant)
    THEN Out(st, PermissionDenied(c, detail))
    ELSE IF restaurant.id = 0 THEN Out(st, RestaurantNotFound(c))
    ELSE Out(st, Goto(c, "service"))
\* the ownership check made with the caller's stored record, not the token
CheckOwnership_StoredUser(st, c, detail) ==
    LET restaurant == RestaurantGetByID(st.restaurants, c.rid)
        actor == UserGetByID(st.users, c.claims.user_id)
    IN IF restaurant.id = 0 THEN Out(st, RestaurantNotFound(c))
       ELSE IF actor.id = 0
               \/ ~MayActOnRestaurant([c.claims EXCEPT !.role = actor.role], restaurant)
       THEN Out(st, PermissionDenied(c, detail))
       ELSE Out(st, Goto(c, "service"))
\* the handler's own lookup and ownership check (UpdateRestaurant, DeleteRestaurant)
CheckOwnership(st, c, detail) ==
    LET restaurant == RestaurantGetByID(st.restaurants, c.rid) IN
    IF restaurant.id = 0 THEN Out(st, RestaurantNotFound(c))
    ELSE IF ~MayActOnRestaurant(c.claims, restaurant)
    THEN Out(st, PermissionDenied(c, detail))
    ELSE Out(st, Goto(c, "service"))
UpdateRestaurant_start(st, c) ==
    CheckOwnership(st, c, "You don't have permission to update this restaurant")
\* UpdateRestaurant handing the restaurant to the caller who updates it
UpdateRestaurant_service_TakeOwner(st, c) ==
    LET restaurant == RestaurantGetByID(st.restaurants, c.rid)
        r1 == IF c.body.name # "" THEN [restaurant EXCEPT !.name = c.body.name] ELSE restaurant
        r2 == IF c.body.description # ""
              THEN [r1 EXCEPT !.description = c.body.description] ELSE r1
        r3 == IF c.body.address # "" THEN [r2 EXCEPT !.address = c.body.address] ELSE r2
        r4 == IF c.body.phone # "" THEN [r3 EXCEPT !.phone = c.body.phone] ELSE r3
    IN IF restaurant.id = 0 THEN Out(st, RestaurantNotFound(c))
       ELSE Out(st, [c EXCEPT !.pc = "save", !.rest = [r4 EXCEPT !.user_id = c.claims.user_id]])
\* UpdateRestaurant overwriting every field with the request's value
UpdateRestaurant_service_Overwrite(st, c) ==
    LET restaurant == RestaurantGetByID(st.restaurants, c.rid)
        r4 == [restaurant EXCEPT !.name = c.body.name, !.description = c.body.description,
                                 !.address = c.body.address, !.phone = c.body.phone]
    IN IF restaurant.id = 0 THEN Out(st, RestaurantNotFound(c))
       ELSE Out(st, [c EXCEPT !.pc = "save", !.rest = r4])
UpdateRestaurant_service(st, c) ==
    LET restaurant == RestaurantGetByID(st.restaurants, c.rid)
        r1 == IF c.body.name # "" THEN [restaurant EXCEPT !.name = c.body.name] ELSE restaurant
        r2 == IF c.body.description # ""
              THEN [r1 EXCEPT !.description = c.body.description] ELSE r1
        r3 == IF c.body.address # "" THEN [r2 EXCEPT !.address = c.body.address] ELSE r2
        r4 == IF c.body.phone # "" THEN [r3 EXCEPT !.phone = c.body.phone] ELSE r3
    IN IF restaurant.id = 0 THEN Out(st, RestaurantNotFound(c))
       ELSE Out(st, [c EXCEPT !.pc = "save", !.rest = r4])
UpdateRestaurant_save(st, c) ==
    Out([st EXCEPT !.restaurants = RestaurantUpdate(st.restaurants, c.rest)],
        Return(c, NewSuccessResponse("OK", "Restaurant updated successfully",
                                     {RestaurantToResponse(c.rest)})))
DeleteRestaurant_start(st, c) ==
    CheckOwnership(st, c, "You don't have permission to delete this restaurant")
DeleteRestaurant_service(st, c) ==
    IF RestaurantGetByID(st.restaurants, c.rid).id = 0 THEN Out(st, RestaurantNotFound(c))
    ELSE Out(st, Goto(c, "delete"))
DeleteRestaurant_delete(st, c) ==
    Out([st EXCEPT !.restaurants = RestaurantDelete(st.restaurants, c.rid)],
        Return(c, NewSuccessResponse("OK", "Restaurant deleted successfully", {})))

---------------------------------------------------------------------------
(* Routing: one step of the request in context c, and a whole request *)
Step(st, c) ==
    LET m == JWT(st, c) IN
    CASE c.op = "Register" /\ c.pc = "start" -> Register_start(st, c)
      [] c.op = "Register" /\ c.pc = "create" -> Register_create(st, c)
      [] c.op = "Login" -> Login_start(st, c)
      [] c.op = "GetUser" ->
            IF m.c.pc = "done" THEN m ELSE GetUser_start(m.st, m.c)
      [] c.op = "UpdateUser" /\ c.pc = "start" ->
            IF m.c.pc = "done" THEN m ELSE UpdateUser_start(m.st, m.c)
      [] c.op = "UpdateUser" /\ c.pc = "email" -> UpdateUser_email(st, c)
      [] c.op = "UpdateUser" /\ c.pc = "save" -> UpdateUser_save(st, c)
      [] c.op = "DeleteUser" /\ c.pc = "start" ->
            IF m.c.pc = "done" THEN m ELSE DeleteUser_start(m.st, m.c)
      [] c.op = "DeleteUser" /\ c.pc = "delete" -> DeleteUser_delete(st, c)
      [] c.op = "GetUserRestaurants" /\ c.pc = "start" ->
            IF m.c.pc = "done" THEN m ELSE GetUserRestaurants_start(m.st, m.c)
      [] c.op = "GetUserRestaurants" /\ c.pc = "list" -> GetUserRestaurants_list(st, c)
      [] c.op = "GetUserRestaurant" /\ c.pc = "start" ->
            IF m.c.pc = "done" THEN m ELSE GetUserRestaurant_start(m.st, m.c)
      [] c.op = "GetUserRestaurant" /\ c.pc = "get" -> GetUserRestaurant_get(st, c)
      [] c.op = "CreateRestaurant" /\ c.pc = "start" ->
            IF m.c.pc = "done" THEN m ELSE CreateRestaurant_start(m.st, m.c)
      [] c.op = "CreateRestaurant" /\ c.pc = "create" -> CreateRestaurant_create(st, c)
      [] c.op = "UpdateRestaurant" /\ c.pc = "start" ->
            IF m.c.pc = "done" THEN m ELSE UpdateRestaurant_start(m.st, m.c)
      [] c.op = "UpdateRestaurant" /\ c.pc = "service" -> UpdateRestaurant_service(st, c)
      [] c.op = "UpdateRestaurant" /\ c.pc = "save" -> UpdateRestaurant_save(st, c)
      [] c.op = "DeleteRestaurant" /\ c.pc = "start" ->
            IF m.c.pc = "done" THEN m ELSE DeleteRestaurant_start(m.st, m.c)
      [] c.op = "DeleteRestaurant" /\ c.pc = "service" -> DeleteRestaurant_service(st, c)
      [] c.op = "DeleteRestaurant" /\ c.pc = "delete" -> DeleteRestaurant_delete(st, c)

RECURSIVE Serve(_, _)
Serve(st, c) ==
    IF c.pc = "done" THEN Out(st, c)
    ELSE LET o == Step(st, c) IN Serve(o.st, o.c)

---------------------------------------------------------------------------
(* Requests the clients send *)
SeedAdmin == [id |-> 1, name |-> "n1", email |-> "e1", password |-> HashPassword("p1"),
              role |-> "admin", deleted |-> FALSE]
ForgedTokens ==
    {[user_id |-> 1, email |-> "e1", role |-> "admin", exp |-> MaxClock + TokenTTL,
      key |-> "attacker_key"]}
\* what the clients send in the runs of the specifications
Headers == {NoHeader} \cup {Bearer(t) : t \in issued}
RegisterBodies ==
    {[NoBody EXCEPT !.name = "n1", !.email = e, !.password = "p1"] : e \in Emails}
LoginBodies ==
    {[NoBody EXCEPT !.email = e, !.password = p] : e \in Emails, p \in {"p1", "p2"}}
UpdateUserBodies ==
    {[NoBody EXCEPT !.name = "n2", !.password = "p2"]}
    \cup {[NoBody EXCEPT !.email = e] : e \in Emails}
    \cup {[NoBody EXCEPT !.role = r] : r \in {"admin", "user"}}
CreateRestaurantBodies == {[NoBody EXCEPT !.name = "r1", !.address = "a1"]}
UpdateRestaurantBodies == {[NoBody EXCEPT !.name = "r2", !.phone = "t2"]}

Store == [users |-> users, restaurants |-> restaurants, issued |-> issued, now |-> now]
WithinBounds(st) ==
    /\ Len(st.users) <= MaxUsers
    /\ Len(st.restaurants) <= MaxRestaurants
    /\ Cardinality(st.issued) <= MaxTokens
Commit(o, s) ==
    /\ WithinBounds(o.st)
    /\ users' = o.st.users
    /\ restaurants' = o.st.restaurants
    /\ issued' = o.st.issued
    /\ reqs' = [reqs EXCEPT ![s] = IF o.c.pc = "done" THEN Idle ELSE o.c]
    /\ UNCHANGED now
\* a whole request, from the middleware to the response
Handle(c) == Commit(Serve(Store, c), 1)

Init ==
    /\ users \in {<<>>, <<SeedAdmin>>}
    /\ restaurants = <<>>
    /\ issued = {}
    /\ now = 0
    /\ reqs = [s \in Slots |-> Idle]

Register ==
    \E h \in Headers, b \in RegisterBodies : Handle(NewRequest("Register", h, 0, 0, b))
Login ==
    \E h \in Headers, b \in LoginBodies : Handle(NewRequest("Login", h, 0, 0, b))
GetUser == \E h \in Headers, id \in UserIds : Handle(NewRequest("GetUser", h, id, 0, NoBody))
UpdateUser ==
    \E h \in Headers, id \in UserIds, b \in UpdateUserBodies :
        Handle(NewRequest("UpdateUser", h, id, 0, b))
DeleteUser ==
    \E h \in Headers, id \in UserIds : Handle(NewRequest("DeleteUser", h, id, 0, NoBody))
GetUserRestaurants ==
    \E h \in Headers, id \in UserIds :
        Handle(NewRequest("GetUserRestaurants", h, id, 0, NoBody))
GetUserRestaurant ==
    \E h \in Headers, id \in UserIds, rid \in RestaurantIds :
        Handle(NewRequest("GetUserRestaurant", h, id, rid, NoBody))
CreateRestaurant ==
    \E h \in Headers, b \in CreateRestaurantBodies :
        Handle(NewRequest("CreateRestaurant", h, 0, 0, b))
UpdateRestaurant ==
    \E h \in Headers, rid \in RestaurantIds, b \in UpdateRestaurantBodies :
        Handle(NewRequest("UpdateRestaurant", h, 0, rid, b))
DeleteRestaurant ==
    \E h \in Headers, rid \in RestaurantIds :
        Handle(NewRequest("DeleteRestaurant", h, 0, rid, NoBody))

Next ==
    \/ Register
    \/ Login
    \/ GetUser
    \/ UpdateUser
    \/ DeleteUser
    \/ GetUserRestaurants
    \/ GetUserRestaurant
    \/ CreateRestaurant
    \/ UpdateRestaurant
    \/ DeleteRestaurant

Spec == Init /\ [][Next]_vars

---------------------------------------------------------------------------
(* The passing of time, and requests in flight *)
Tick ==
    /\ now + ClockStep <= MaxClock
    /\ now' = now + ClockStep
    /\ UNCHANGED <<users, restaurants, issued, reqs>>

NextClock ==
    \/ Tick
    \/ Register
    \/ Login
    \/ CreateRestaurant
    \/ DeleteUser

SpecClock == Init /\ [][NextClock]_vars

\* updates of one field each, sent on two connections at once
ConcUpdateRestaurantBodies ==
    UpdateRestaurantBodies
    \cup {[NoBody EXCEPT !.name = "r2"], [NoBody EXCEPT !.phone = "t2"]}
\* the requests whose store steps SpecConc interleaves
ConcRequests ==
    {NewRequest("Register", NoHeader, 0, 0, b) : b \in RegisterBodies}
    \cup {NewRequest("Login", NoHeader, 0, 0, [NoBody EXCEPT !.email = e, !.password = "p1"]) :
             e \in Emails}
    \cup {NewRequest("UpdateUser", Bearer(t), t.user_id, 0, [NoBody EXCEPT !.email = e]) :
             t \in issued, e \in Emails}
    \cup {NewRequest("DeleteUser", Bearer(t), t.user_id, 0, NoBody) : t \in issued}
    \cup {NewRequest("CreateRestaurant", Bearer(t), 0, 0, b) :
             t \in issued, b \in CreateRestaurantBodies}
    \cup {NewRequest("UpdateRestaurant", Bearer(t), 0, rid, b) :
             t \in issued, rid \in RestaurantIds, b \in ConcUpdateRestaurantBodies}
    \cup {NewRequest("DeleteRestaurant", Bearer(t), 0, rid, NoBody) :
             t \in issued, rid \in RestaurantIds}
\* a request arrives on a free connection
Begin(s) ==
    /\ reqs[s].pc = "idle"
    /\ \E c \in ConcRequests : reqs' = [reqs EXCEPT ![s] = c]
    /\ UNCHANGED <<users, restaurants, issued, now>>
\* the request on connection s runs up to and including its next store call
Advance(s) ==
    /\ reqs[s].pc # "idle"
    /\ Commit(Step(Store, reqs[s]), s)

NextConc == \E s \in Slots : Begin(s) \/ Advance(s)

SpecConc == Init /\ [][NextConc]_vars

---------------------------------------------------------------------------
(* Every request a client can send in the current state, and its outcome *)
BadHeaders == {NoHeader, BasicHeader} \cup {Bearer(t) : t \in ForgedTokens}
AllHeaders == BadHeaders \cup {Bearer(t) : t \in issued}
AllUpdateUserBodies ==
    {[NoBody EXCEPT !.name = n, !.email = e, !.password = p, !.role = r] :
        n \in {"", "n2"}, e \in {""} \cup Emails, p \in {"", "p2"},
        r \in {"", "admin", "user"}}
AllUpdateRestaurantBodies ==
    {[NoBody EXCEPT !.name = n, !.description = d, !.address = a, !.phone = t] :
        n \in {"", "r2"}, d \in {"", "d2"}, a \in {"", "a2"}, t \in {"", "t2"}}
UserRequests(h, id) ==
    {NewRequest("GetUser", h, id, 0, NoBody), NewRequest("DeleteUser", h, id, 0, NoBody)}
    \cup {NewRequest("UpdateUser", h, id, 0, b) : b \in AllUpdateUserBodies}
RestaurantWrites(h, rid) ==
    {NewRequest("DeleteRestaurant", h, 0, rid, NoBody)}
    \cup {NewRequest("UpdateRestaurant", h, 0, rid, b) : b \in AllUpdateRestaurantBodies}
RestaurantReads(h, id, rid) ==
    {NewRequest("GetUserRestaurants", h, id, 0, NoBody),
     NewRequest("GetUserRestaurant", h, id, rid, NoBody)}
ProtectedRequests(h) ==
    UNION {UserRequests(h, id) : id \in UserIds}
    \cup UNION {RestaurantWrites(h, rid) : rid \in RestaurantIds}
    \cup UNION {RestaurantReads(h, id, rid) : id \in UserIds, rid \in RestaurantIds}
    \cup {NewRequest("CreateRestaurant", h, 0, 0, b) : b \in CreateRestaurantBodies}
PublicRequests ==
    {NewRequest("Register", NoHeader, 0, 0, b) : b \in RegisterBodies}
    \cup {NewRequest("Login", NoHeader, 0, 0, b) : b \in LoginBodies}
Response(c) == Serve(Store, c).c.resp
StoreAfter(c) == Serve(Store, c).st
Status(c) == Response(c).status
\* tokens the middleware accepts now: the authenticated principals
Principals == {t \in issued : ParseWithClaims(t, now)}
LiveUsers == {i \in 1..Len(users) : ~users[i].deleted}
LiveRestaurants == {i \in 1..Len(restaurants) : ~restaurants[i].deleted}

---------------------------------------------------------------------------
(* C1 *)
C1_AimedAt(h, r) == RestaurantWrites(h, r.id) \cup RestaurantReads(h, r.user_id, r.id)
C1_NonOwner(t, r) == t.user_id # r.user_id /\ t.role # AdminRole

\* C1: for every stored restaurant r and every authenticated principal that
\* is neither r's owner nor an admin, each of GET /users/{r.user_id}/restaurants,
\* GET /users/{r.user_id}/restaurants/{r.id}, PUT /restaurants/{r.id} and
\* DELETE /restaurants/{r.id} answers Forbidden, carries no data and leaves
\* the store as it was.
C1_NonOwnerForbidden ==
    \A t \in Principals, i \in LiveRestaurants :
        C1_NonOwner(t, restaurants[i]) =>
            \A c \in C1_AimedAt(Bearer(t), restaurants[i]) :
                /\ Status(c) = "Forbidden"
                /\ Response(c).data = {}
                /\ StoreAfter(c) = Store
C1_Witness ==
    \E t \in Principals, i \in LiveRestaurants :
        /\ C1_NonOwner(t, restaurants[i])
        /\ UserGetByID(users, t.user_id).id # 0
        /\ Status(NewRequest("DeleteRestaurant", Bearer(t), 0, i, NoBody)) = "Forbidden"

(* C2 *)
C2_OnUser(h, id) == UserRequests(h, id) \cup {NewRequest("GetUserRestaurants", h, id, 0, NoBody)}
C2_Admins == {t \in Principals : t.role = AdminRole}
C2_Regulars == {t \in Principals : t.role # AdminRole}
C2_RegularOnlyOwn ==
    \A t \in C2_Regulars :
        /\ \A id \in UserIds : \A c \in C2_OnUser(Bearer(t), id) :
               Status(c) = "OK" => id = t.user_id
        /\ \A i \in LiveRestaurants : \A c \in RestaurantWrites(Bearer(t), i) :
               Status(c) = "OK" => restaurants[i].user_id = t.user_id
\* the email of an update is held by another row of the users table
C2_EmailTaken(c) == ~EmailIndexAllows(users, c.uid, c.body.email)

\* C2 as stated: every request of an admin on an existing user or restaurant
\* is never answered Forbidden and succeeds; a regular user's requests
\* succeed only on their own record and restaurants.
C2_AdminAlwaysSucceeds ==
    /\ \A t \in C2_Admins :
        /\ \A id \in LiveUsers : \A c \in C2_OnUser(Bearer(t), id) : Status(c) = "OK"
        /\ \A i \in LiveRestaurants : \A c \in RestaurantWrites(Bearer(t), i) : Status(c) = "OK"
    /\ C2_RegularOnlyOwn

\* C2 amended: every request of an admin on an existing user or restaurant is
\* never answered Forbidden, and succeeds unless it is a PUT /users/{id} whose
\* email is held by another user record, which is answered 500 and changes
\* nothing; a regular user's requests succeed only on their own record and
\* restaurants.
C2_AdminNeverForbidden ==
    /\ \A t \in C2_Admins :
        /\ \A id \in LiveUsers : \A c \in C2_OnUser(Bearer(t), id) :
               /\ Status(c) # "Forbidden"
               /\ IF c.op = "UpdateUser" /\ C2_EmailTaken(c)
                  THEN Status(c) = "InternalServerError" /\ StoreAfter(c) = Store
                  ELSE Status(c) = "OK"
        /\ \A i \in LiveRestaurants : \A c \in RestaurantWrites(Bearer(t), i) : Status(c) = "OK"
    /\ C2_RegularOnlyOwn
C2_Witness ==
    \E t \in C2_Admins, id \in LiveUsers, i \in LiveRestaurants :
        /\ id # t.user_id
        /\ restaurants[i].user_id = id
        /\ Status(NewRequest("DeleteUser", Bearer(t), id, 0, NoBody)) = "OK"
        /\ Status(NewRequest("DeleteRestaurant", Bearer(t), 0, i, NoBody)) = "OK"
        /\ \E c \in UserRequests(Bearer(t), id) :
               c.op = "UpdateUser" /\ C2_EmailTaken(c) /\ Status(c) = "InternalServerError"

(* C3 *)
\* the requests whose resource is named by a path user id
C3_OnPathUser(h, id) ==
    C2_OnUser(h, id)
    \cup {NewRequest("GetUserRestaurant", h, id, rid, NoBody) : rid \in RestaurantIds}
C3_Known(c) ==
    IF c.op \in {"UpdateRestaurant", "DeleteRestaurant"} THEN c.rid \in LiveRestaurants
    ELSE IF c.op = "GetUserRestaurant" THEN c.uid \in LiveUsers /\ c.rid \in LiveRestaurants
    ELSE c.uid \in LiveUsers
C3_Requests(h) ==
    UNION {C3_OnPathUser(h, id) : id \in UserIds}
    \cup UNION {RestaurantWrites(h, rid) : rid \in RestaurantIds}
\* the rule refuses the principal on the path user id (or the role change)
C3_Refused(c, t) ==
    \/ ~MayActOnUser(t, c.uid)
    \/ c.op = "UpdateUser" /\ c.body.role # "" /\ t.role # AdminRole

C4_RoleChanged(U, V) == \E i \in 1..Len(U) : V[i].role # U[i].role

\* C4: a PUT /users/{id} that carries a role and is sent by a non-admin
\* principal (on its own id too, with other fields too) is answered Forbidden
\* and changes no user; a stored role changes only through an UpdateUser of
\* an admin principal.
C4_RoleChangeAdminOnly ==
    /\ \A t \in Principals, id \in UserIds, b \in AllUpdateUserBodies :
           b.role # "" /\ t.role # AdminRole =>
               /\ Status(NewRequest("UpdateUser", Bearer(t), id, 0, b)) = "Forbidden"
               /\ StoreAfter(NewRequest("UpdateUser", Bearer(t), id, 0, b)) = Store
    /\ \A h \in AllHeaders : \A c \in ProtectedRequests(h) \cup PublicRequests :
           C4_RoleChanged(users, StoreAfter(c).users) =>
               /\ c.op = "UpdateUser"
               /\ c.hdr.token \in Principals
               /\ c.hdr.token.role = AdminRole
C4_Witness ==
    /\ \E t \in Principals :
           /\ t.role # AdminRole /\ t.user_id \in LiveUsers
           /\ Status(NewRequest("UpdateUser", Bearer(t), t.user_id, 0,
                                [NoBody EXCEPT !.name = "n2", !.role = "admin"])) = "Forbidden"
    /\ \E t \in Principals, id \in LiveUsers :
           C4_RoleChanged(users, StoreAfter(NewRequest("UpdateUser", Bearer(t), id, 0,
                                                       [NoBody EXCEPT !.role = "admin"])).users)

(* C5 *)
C5_Register(b) == NewRequest("Register", NoHeader, 0, 0, b)
C5_Bodies ==
    {[NoBody EXCEPT !.name = n, !.email = e, !.password = p] :
        n \in {"n1", "n2"}, e \in Emails, p \in {"p1", "p2"}}
C5_Held(b) == UserGetByEmail(users, b.email).id # 0

C7_Update(t, id, b) == NewRequest("UpdateUser", Bearer(t), id, 0, b)
\* the principal may update user id with body b
C7_Allowed(t, id, b) == MayActOnUser(t, id) /\ (b.role = "" \/ t.role = AdminRole)
C7_HeldByAnother(id, b) ==
    b.email # "" /\ b.email # users[id].email /\ UserGetByEmail(users, b.email).id # 0

C10_TokenGated ==
    /\ \A h \in BadHeaders : \A c \in ProtectedRequests(h) :
           /\ Status(c) = "Unauthorized"
           /\ Serve(Store, c).c.claims = NilClaims
           /\ StoreAfter(c) = Store
    /\ \A h \in BadHeaders, b \in RegisterBodies :
           ~C5_Held(b) /\ EmailIndexAllows(users, 0, b.email) =>
               Status(NewRequest("Register", h, 0, 0, b)) = "Created"
C10_Witness ==
    \E t \in ForgedTokens, i \in LiveRestaurants :
        /\ t.user_id \in LiveUsers /\ users[t.user_id].role = AdminRole
        /\ Status(NewRequest("DeleteRestaurant", Bearer(t), 0, i, NoBody)) = "Unauthorized"
        /\ Status(NewRequest("GetUser", NoHeader, t.user_id, 0, NoBody)) = "Unauthorized"
        /\ Status(NewRequest("GetUser", BasicHeader, t.user_id, 0, NoBody)) = "Unauthorized"

(* C9 *)
C9_Rejected(t) ==
    /\ \A c \in ProtectedRequests(Bearer(t)) :
           /\ Status(c) = "Unauthorized"
           /\ Serve(Store, c).c.claims = NilClaims
           /\ StoreAfter(c) = Store
    /\ ValidateToken(t, now).err
    /\ ValidateToken(t, now).claims = NilClaims
C9_Accepted(t) ==
    /\ \A c \in ProtectedRequests(Bearer(t)) : Status(c) # "Unauthorized"
    /\ ~ValidateToken(t, now).err

\* C9 as stated: a token is accepted by every protected route while the clock
\* is before its expiry (24 h after issue), and from its expiry on every
\* protected route answers Unauthorized without running the handler or
\* changing the store, and ValidateToken returns an error and no claims.
C9_RejectedFromExpiry ==
    \A t \in issued :
        /\ t.exp <= now + TokenTTL
        /\ now < t.exp => C9_Accepted(t)
        /\ now >= t.exp => C9_Rejected(t)

\* C9 amended: a token is accepted by every protected route up to and
\* including the instant of its expiry (24 h after issue), and once the clock
\* is past its expiry every protected route answers Unauthorized without
\* running the handler or changing the store, and ValidateToken returns an
\* error and no claims.
C9_RejectedPastExpiry ==
    \A t \in issued :
        /\ t.exp <= now + TokenTTL
        /\ now <= t.exp => C9_Accepted(t)
        /\ now > t.exp => C9_Rejected(t)
C9_Witness ==
    /\ \E t \in issued :
           /\ now > t.exp /\ t.user_id \in LiveUsers
           /\ Status(NewRequest("GetUser", Bearer(t), t.user_id, 0, NoBody)) = "Unauthorized"
    /\ \E t \in issued :
           /\ now = t.exp /\ t.user_id \in LiveUsers
           /\ Status(NewRequest("GetUser", Bearer(t), t.user_id, 0, NoBody)) = "OK"

(* C6 *)
\* C6: in every state reached by interleaving the store steps of Register,
\* UpdateUser and DeleteUser requests, no two user records hold the same
\* email.
C6_UniqueEmail ==
    \A i, j \in 1..Len(users) : i # j => users[i].email # users[j].email
\* two requests passed their lookup by email and one of them has written
C6_Witness ==
    \E s \in Slots, i \in 1..Len(users) :
        /\ reqs[s].pc \in {"create", "save"}
        /\ reqs[s].op \in {"Register", "UpdateUser"}
        /\ reqs[s].user.email = users[i].email
        /\ reqs[s].user.id # i

(* C8 *)
\* C8: in every reachable state the user_id of every non-deleted restaurant
\* is the id of an existing, non-deleted user.
C8_OwnerExists ==
    \A i \in LiveRestaurants : restaurants[i].user_id \in LiveUsers

(* C11 *)
C11_Login(b) == NewRequest("Login", NoHeader, 0, 0, b)
\* the token Login signs for the stored record u at the current instant
C11_Expected(u) ==
    [user_id |-> u.id, email |-> u.email, role |-> u.role, exp |-> now + TokenTTL,
     key |-> JWTSecret]
\* the claims a token carries (its payload, without the signature)
C11_Claims(t) == [user_id |-> t.user_id, email |-> t.email, role |-> t.role, exp |-> t.exp]
C11_OtherRequests ==
    UNION {ProtectedRequests(h) : h \in AllHeaders}
    \cup {NewRequest("Register", NoHeader, 0, 0, b) : b \in RegisterBodies}

C12_Passwords == {"p1", "p2", "p3"}
C12_Emails == Emails \cup {"e3"}
C12_Login(e, p) == NewRequest("Login", NoHeader, 0, 0, [NoBody EXCEPT !.email = e, !.password = p])
C12_LoginOK(st, e, p) == Serve(st, C12_Login(e, p)).c.resp.status = "OK"
C12_Registers ==
    {NewRequest("Register", NoHeader, 0, 0,
                [NoBody EXCEPT !.name = "n1", !.email = e, !.password = p]) :
        e \in C12_Emails, p \in C12_Passwords}
C12_Updates ==
    {NewRequest("UpdateUser", Bearer(t), id, 0, b) :
        t \in Principals, id \in LiveUsers, b \in AllUpdateUserBodies}

\* C12: Login(e, p) answers OK with a token iff a non-deleted user holds e and
\* p is the password last set for it; after a successful Register(e, p) exactly
\* p logs e in; after a successful UpdateUser with a password exactly the new
\* password logs the user in (the old one fails), and without one the
\* passwords that log the user in are unchanged; every failed Login, for an
\* unknown email as for a wrong password, is the same Unauthorized response.
C12_LoginIffLastPassword ==
    /\ \A e \in C12_Emails, p \in C12_Passwords :
           /\ C12_LoginOK(Store, e, p) <=>
                  \E i \in LiveUsers :
                      users[i].email = e /\ users[i].password = HashPassword(p)
           /\ IF C12_LoginOK(Store, e, p)
              THEN \E d \in Response(C12_Login(e, p)).data : d.token.email = e
              ELSE Response(C12_Login(e, p)) =
                       NewErrorResponse("Unauthorized", "Authentication failed",
                                        "invalid email or password")
    /\ \A c \in C12_Registers :
           Status(c) = "Created" =>
               \A p \in C12_Passwords :
                   C12_LoginOK(StoreAfter(c), c.body.email, p) <=> p = c.body.password
    /\ \A c \in C12_Updates :
           Status(c) = "OK" =>
               \A p \in C12_Passwords :
                   C12_LoginOK(StoreAfter(c), StoreAfter(c).users[c.uid].email, p) <=>
                       IF c.body.password # "" THEN p = c.body.password
                       ELSE C12_LoginOK(Store, users[c.uid].email, p)
\* a user changed the password; another user's record is deleted
C12_Witness ==
    /\ \E i \in LiveUsers :
           /\ users[i].password = HashPassword("p2")
           /\ Status(C12_Login(users[i].email, "p1")) = "Unauthorized"
           /\ Status(C12_Login(users[i].email, "p2")) = "OK"
           /\ \E c \in C12_Updates :
                  c.uid = i /\ c.body.password = "" /\ c.body.name # "" /\ Status(c) = "OK"
    /\ \E i \in 1..Len(users) :
           users[i].deleted /\ Status(C12_Login(users[i].email, "p1")) = "Unauthorized"
    /\ \E c \in C12_Registers : Status(c) = "Created"

(* C13 *)
\* partial update of one field: the request's value when it is not empty
C13_Field(new, old) == IF new # "" THEN new ELSE old
C13_Restaurant(old, b) ==
    [old EXCEPT !.name = C13_Field(b.name, old.name),
                !.description = C13_Field(b.description, old.description),
                !.address = C13_Field(b.address, old.address),
                !.phone = C13_Field(b.phone, old.phone)]
C13_User(old, b) ==
    [old EXCEPT !.name = C13_Field(b.name, old.name),
                !.email = C13_Field(b.email, old.email),
                !.password = IF b.password # "" THEN HashPassword(b.password) ELSE old.password,
                !.role = C13_Field(b.role, old.role)]
C13_RestaurantUpdates ==
    {NewRequest("UpdateRestaurant", h, 0, rid, b) :
        h \in AllHeaders, rid \in RestaurantIds, b \in AllUpdateRestaurantBodies}
C13_UserUpdates ==
    {NewRequest("UpdateUser", h, id, 0, b) :
        h \in AllHeaders, id \in UserIds, b \in AllUpdateUserBodies}

C14_DeleteUser(t, id) == NewRequest("DeleteUser", Bearer(t), id, 0, NoBody)
C14_DeleteRestaurant(t, rid) == NewRequest("DeleteRestaurant", Bearer(t), 0, rid, NoBody)
C14_NotFound(c) == Status(c) = "NotFound" /\ StoreAfter(c) = Store

C15_Unreadable(i) ==
    \A t \in Principals :
        /\ \A c \in RestaurantWrites(Bearer(t), i) : Status(c) = "NotFound"
        /\ \A id \in UserIds :
               MayActOnUser(t, id) =>
                   /\ Status(NewRequest("GetUserRestaurant", Bearer(t), id, i, NoBody)) = "NotFound"
                   /\ \A d \in Response(NewRequest("GetUserRestaurants", Bearer(t), id, 0,
                                                   NoBody)).data : d.id # i
C15_Deleted == {i \in 1..Len(restaurants) : restaurants[i].deleted}
\* a deleted restaurant is still deleted after the step
C15_StaysDeleted == \A i \in C15_Deleted : restaurants'[i].deleted

\* C15: once DeleteRestaurant(id) has succeeded the record is hidden for good:
\* GetUserRestaurants never lists it, GetUserRestaurant, UpdateRestaurant and
\* DeleteRestaurant on it answer NotFound, and no later step of any request
\* (the save of an UpdateRestaurant that read the record before the delete
\* included) makes it readable again.
C15_HiddenForGood ==
    /\ [](\A i \in C15_Deleted : C15_Unreadable(i))
    /\ [][C15_StaysDeleted]_vars

(* C16 *)
C16_Bodies ==
    {[NoBody EXCEPT !.name = n, !.description = d, !.address = "a1", !.phone = p] :
        n \in {"r1", "r2"}, d \in {"", "d1"}, p \in {"", "t1"}}
C16_Create(t, b) == NewRequest("CreateRestaurant", Bearer(t), 0, 0, b)
\* the record CreateRestaurant stores for the principal of token t
C16_New(t, b) ==
    [id |-> Len(restaurants) + 1, name |-> b.name, description |-> b.description,
     address |-> b.address, phone |-> b.phone, user_id |-> t.user_id, deleted |-> FALSE]

\* C16: for every accepted principal (an admin too) and every body,
\* CreateRestaurant answers Created and adds exactly one restaurant, whose
\* user_id is the user id of the caller's token, when a non-deleted user with
\* that id exists, and answers NotFound and changes nothing when none exists.
C16_CreatedForCaller ==
    \A t \in Principals, b \in C16_Bodies :
        IF t.user_id \in LiveUsers
        THEN /\ Status(C16_Create(t, b)) = "Created"
             /\ StoreAfter(C16_Create(t, b)) =
                    [Store EXCEPT !.restaurants = Append(restaurants, C16_New(t, b))]
             /\ Response(C16_Create(t, b)).data = {RestaurantToResponse(C16_New(t, b))}
        ELSE /\ Status(C16_Create(t, b)) = "NotFound"
             /\ Response(C16_Create(t, b)).message = "User not found"
             /\ StoreAfter(C16_Create(t, b)) = Store
\* an admin owns the restaurant it created while another user exists, and the
\* token of a deleted user is still accepted
C16_Witness ==
    /\ \E t \in Principals, i \in LiveRestaurants :
           /\ t.role = AdminRole /\ restaurants[i].user_id = t.user_id
           /\ Len(users) > 1
    /\ \E t \in Principals, b \in C16_Bodies :
           t.user_id \notin LiveUsers /\ Status(C16_Create(t, b)) = "NotFound"

(* C17 *)
\* register bodies, with and without the role field of the documented example
C17_Bodies ==
    {[NoBody EXCEPT !.name = "n1", !.email = e, !.password = p, !.role = r] :
        e \in C12_Emails, p \in {"p1", "p2"}, r \in {"", "admin", "user"}}
C17_Register(b) == NewRequest("Register", NoHeader, 0, 0, b)
C17_New(b) ==
    [id |-> Len(users) + 1, name |-> b.name, email |-> b.email,
     password |-> HashPassword(b.password), role |-> "user", deleted |-> FALSE]

\* C17: a successful Register adds exactly one user, with role "user" whatever
\* the body carries (a role field too) and with the hash of the password as
\* stored password, which verifies against the password; the response carries
\* the record without the password; a failed Register stores nothing.
C17_RegisterStoresUserRole ==
    \A b \in C17_Bodies :
        IF Status(C17_Register(b)) = "Created"
        THEN /\ StoreAfter(C17_Register(b)) = [Store EXCEPT !.users = Append(users, C17_New(b))]
             /\ C17_New(b).role = UserRole
             /\ CheckPasswordHash(b.password, C17_New(b).password)
             /\ Response(C17_Register(b)).data = {UserToResponse(C17_New(b))}
        ELSE StoreAfter(C17_Register(b)) = Store
\* a registered user next to an admin, and a registration that asks for admin
C17_Witness ==
    /\ \E i, j \in LiveUsers :
           /\ users[i].role = AdminRole
           /\ users[j].role = UserRole /\ users[j].password = HashPassword("p1")
    /\ \E b \in C17_Bodies :
           /\ b.role = "admin" /\ Status(C17_Register(b)) = "Created"
           /\ StoreAfter(C17_Register(b)).users[Len(users) + 1].role = UserRole

(* C18 *)
C18_Get(t, id, rid) == NewRequest("GetUserRestaurant", Bearer(t), id, rid, NoBody)
\* restaurant rid exists and belongs to user id
C18_Owned(id, rid) == rid \in LiveRestaurants /\ restaurants[rid].user_id = id

\* C18: GET /users/{userId}/restaurants/{id} returns the restaurant only when
\* user userId exists and the restaurant exists with user_id = userId; for a
\* principal the route admits (userId itself or an admin) the answer is
\* NotFound "User not found" whenever user userId does not exist, whether or
\* not the restaurant exists, NotFound "Restaurant not found" when the user
\* exists and the restaurant does not exist or belongs to a different user
\* (for an admin too), and the restaurant otherwise; the store is unchanged.
C18_OnlyOfPathUser ==
    \A t \in Principals, id \in UserIds, rid \in RestaurantIds :
        /\ Status(C18_Get(t, id, rid)) = "OK" => id \in LiveUsers /\ C18_Owned(id, rid)
        /\ Response(C18_Get(t, id, rid)).data # {} => Status(C18_Get(t, id, rid)) = "OK"
        /\ StoreAfter(C18_Get(t, id, rid)) = Store
        /\ MayActOnUser(t, id) =>
               Response(C18_Get(t, id, rid)) =
                   IF id \notin LiveUsers
                   THEN NewErrorResponse("NotFound", "User not found",
                                         "The requested user does not exist")
                   ELSE IF ~C18_Owned(id, rid)
                   THEN NewErrorResponse("NotFound", "Restaurant not found",
                                         "The requested restaurant does not exist")
                   ELSE NewSuccessResponse("OK", "Restaurant retrieved successfully",
                                           {RestaurantToResponse(restaurants[rid])})
\* an admin asks for another user's restaurant under its own user id, and under
\* the owner's
C18_Witness ==
    \E t \in Principals, rid \in LiveRestaurants :
        /\ t.role = AdminRole /\ t.user_id \in LiveUsers
        /\ restaurants[rid].user_id # t.user_id
        /\ Response(C18_Get(t, t.user_id, rid)).message = "Restaurant not found"
        /\ Status(C18_Get(t, restaurants[rid].user_id, rid)) = "OK"

(* C19 *)
C19_List(t, id) == NewRequest("GetUserRestaurants", Bearer(t), id, 0, NoBody)
\* the non-deleted restaurants whose user_id is id
C19_Of(id) == {restaurants[i] : i \in {j \in LiveRestaurants : restaurants[j].user_id = id}}

\* C19: GET /users/{userId}/restaurants sent by userId itself or by an admin
\* answers NotFound when no non-deleted user userId exists and otherwise
\* returns exactly the non-deleted restaurants whose user_id is userId (none
\* when the user owns none), never a restaurant of another user; it returns
\* nothing to any other principal and never changes the store.
C19_ExactlyOwnRestaurants ==
    \A t \in Principals, id \in UserIds :
        /\ StoreAfter(C19_List(t, id)) = Store
        /\ \A d \in Response(C19_List(t, id)).data : d.user_id = id
        /\ IF ~MayActOnUser(t, id)
           THEN Response(C19_List(t, id)).data = {}
           ELSE IF id \notin LiveUsers
           THEN /\ Status(C19_List(t, id)) = "NotFound"
                /\ Response(C19_List(t, id)).data = {}
           ELSE /\ Status(C19_List(t, id)) = "OK"
                /\ Response(C19_List(t, id)).data = {RestaurantToResponse(r) : r \in C19_Of(id)}
\* an admin lists a user who owns a restaurant and one who owns none
C19_Witness ==
    \E t \in Principals, id \in LiveUsers, other \in LiveUsers :
        /\ t.role = AdminRole /\ t.user_id # id
        /\ Response(C19_List(t, id)).data # {}
        /\ Status(C19_List(t, other)) = "OK" /\ Response(C19_List(t, other)).data = {}

(* C20 *)
C20_Roles == {AdminRole, UserRole}
\* update bodies whose role is neither "admin" nor "user"
C20_BadRoleBodies ==
    {[NoBody EXCEPT !.name = n, !.password = p, !.role = r] :
        n \in {"", "n2"}, p \in {"", "p2"}, r \in {"owner", "Admin"}}
C20_Update(t, id, b) == NewRequest("UpdateUser", Bearer(t), id, 0, b)
C20_AllRequests ==
    UNION {ProtectedRequests(h) : h \in AllHeaders} \cup PublicRequests
    \cup {C17_Register(b) : b \in C17_Bodies}
\* UserService.UpdateUser's field step on the stored user id with body b
C20_ServiceFields(id, b) ==
    UpdateUser_fields(Store, NewRequest("UpdateUser", NoHeader, id, 0, b), users[id])

\* C20: the role of every stored user is "admin" or "user", now and after
\* every request (Register writes "user"); a PUT /users/{id} whose role is
\* not empty and not one of the two is refused at validation (400) whoever
\* sends it, and UserService.UpdateUser itself refuses such a role with
\* "invalid role"; neither changes any record.
C20_RoleIsAdminOrUser ==
    /\ \A i \in 1..Len(users) : users[i].role \in C20_Roles
    /\ \A c \in C20_AllRequests :
           \A i \in 1..Len(StoreAfter(c).users) : StoreAfter(c).users[i].role \in C20_Roles
    /\ \A t \in Principals, id \in UserIds, b \in C20_BadRoleBodies :
           /\ Status(C20_Update(t, id, b)) = "BadRequest"
           /\ StoreAfter(C20_Update(t, id, b)) = Store
    /\ \A id \in LiveUsers, b \in C20_BadRoleBodies :
           /\ C20_ServiceFields(id, b).c.pc = "done"
           /\ C20_ServiceFields(id, b).c.resp.detail = "invalid role"
           /\ C20_ServiceFields(id, b).st = Store
\* both roles are stored, and an admin sends an unknown role for another user
C20_Witness ==
    /\ \E i, j \in LiveUsers : users[i].role = AdminRole /\ users[j].role = UserRole
    /\ \E t \in Principals, id \in LiveUsers, b \in C20_BadRoleBodies :
           /\ t.role = AdminRole /\ t.user_id # id
           /\ Status(C20_Update(t, id, b)) = "BadRequest"
           /\ C20_ServiceFields(id, b).c.resp.status = "InternalServerError"

(* C21 *)
\* connection s is about to save the record of an UpdateRestaurant
C21_Saving(s) == reqs[s].op = "UpdateRestaurant" /\ reqs[s].pc = "save"
\* the same request run alone, from the middleware on, in the current store
C21_Alone(s) == Serve(Store, [reqs[s] EXCEPT !.pc = "start", !.rest = NilRestaurant])
\* the save of connection s leaves what the request run alone would leave
C21_SaveAsIfAlone ==
    \A s \in Slots :
        (/\ C21_Saving(s)
         /\ reqs'[s].pc = "idle"
         /\ reqs[s].rid \in LiveRestaurants)
        => restaurants' = C21_Alone(s).st.restaurants

\* C21: UpdateRestaurant requests whose store steps interleave leave the
\* record a serial run leaves: every save of an UpdateRestaurant on a live
\* restaurant writes what the request would write if it ran alone at that
\* moment, so a field the request does not supply keeps the value another
\* request has stored in the meantime.
C21_UpdatesSerializable == [][C21_SaveAsIfAlone]_vars

(* C22 *)
C22_Success == {"OK", "Created"}
\* every request of the claims above, well-formed or not
C22_Requests ==
    C20_AllRequests
    \cup {C20_Update(t, id, b) : t \in Principals, id \in UserIds, b \in C20_BadRoleBodies}
C22_Failed(c) == Status(c) \notin C22_Success

\* C22: a request that is answered with an error (400, 401, 403, 404 or
\* 500) leaves the users and the restaurants exactly as they were.
C22_ErrorLeavesStore ==
    \A c \in C22_Requests :
        C22_Failed(c) =>
            /\ StoreAfter(c).users = users
            /\ StoreAfter(c).restaurants = restaurants
\* the store refuses an update that also renames the user, and requests are
\* refused with each of the other statuses as well
C22_Witness ==
    /\ \E c \in C22_Requests :
           /\ c.op = "UpdateUser"
           /\ Response(c).detail = "Duplicate entry"
           /\ c.body.name # "" /\ c.body.name # users[c.uid].name
    /\ \A s \in {"BadRequest", "Unauthorized", "Forbidden", "NotFound"} :
           \E c \in C22_Requests : Status(c) = s
    /\ LiveRestaurants # {}

(* C23 *)
\* the users table with the stored role and deletion mark of user id changed
C23_Altered(id) ==
    IF id \in 1..Len(users)
    THEN {[users EXCEPT ![id].role = r, ![id].deleted = d] :
             r \in {AdminRole, UserRole}, d \in BOOLEAN}
    ELSE {users}
C23_Forbidden(st, c) == Serve(st, c).c.resp.status = "Forbidden"
\* principals whose stored role is no longer the token's admin role
C23_Demoted == {t \in Principals : t.role = AdminRole /\ users[t.user_id].role # AdminRole}
\* principals whose user record is deleted
C23_Orphaned == {t \in Principals : users[t.user_id].deleted}
C23_Own(t) == {rid \in LiveRestaurants : restaurants[rid].user_id = t.user_id}
C23_UpdateRestaurant(t, rid, b) == NewRequest("UpdateRestaurant", Bearer(t), 0, rid, b)
C23_DeleteRestaurant(t, rid) == NewRequest("DeleteRestaurant", Bearer(t), 0, rid, NoBody)
C23_CreateRestaurant(t, b) == NewRequest("CreateRestaurant", Bearer(t), 0, 0, b)

\* C23: whether a request of an accepted token is refused with 403 depends
\* on the token's claims and the target only: it is the same whatever the
\* stored role and deletion mark of the token's user. A token with role
\* admin whose user has been demoted is refused nothing, and a token whose
\* user has been deleted still updates and deletes the restaurants carrying
\* its user id, while its CreateRestaurant answers 404.
C23_DecidedByClaims ==
    /\ \A t \in Principals :
           \A c \in ProtectedRequests(Bearer(t)), U \in C23_Altered(t.user_id) :
               C23_Forbidden([Store EXCEPT !.users = U], c) = C23_Forbidden(Store, c)
    /\ \A t \in C23_Demoted :
           \A c \in ProtectedRequests(Bearer(t)) : Status(c) # "Forbidden"
    /\ \A t \in C23_Orphaned :
           /\ \A rid \in C23_Own(t) :
                  /\ \A b \in AllUpdateRestaurantBodies :
                         Status(C23_UpdateRestaurant(t, rid, b)) = "OK"
                  /\ Status(C23_DeleteRestaurant(t, rid)) = "OK"
                  /\ StoreAfter(C23_DeleteRestaurant(t, rid)).restaurants[rid].deleted
           /\ \A b \in CreateRestaurantBodies :
                  Status(C23_CreateRestaurant(t, b)) = "NotFound"
\* a demoted admin's token and the token of a deleted user that has a restaurant
C23_Witness ==
    /\ \E t \in C23_Demoted, rid \in LiveRestaurants :
           /\ restaurants[rid].user_id # t.user_id
           /\ Status(C23_DeleteRestaurant(t, rid)) = "OK"
    /\ \E t \in C23_Orphaned :
           /\ t.role = UserRole
           /\ C23_Own(t) # {}

(* C24 *)
\* no stored user is an admin, and no token the middleware accepts says admin
C24_NoAdminIn(st) ==
    /\ \A i \in 1..Len(st.users) : st.users[i].role # AdminRole
    /\ \A t \in st.issued \cup ForgedTokens :
           ParseWithClaims(t, st.now) => t.role # AdminRole
C24_NoAdmin == C24_NoAdminIn(Store)
\* no request, whatever its header and body, brings an admin into being
C24_NoRequestEscalates ==
    C24_NoAdmin => \A c \in C22_Requests : C24_NoAdminIn(StoreAfter(c))

\* C24: from a store without an admin and without an accepted admin token,
\* no sequence of requests reaches a state with an admin user or an accepted
\* token of role admin; and in such a state no single request (a Register
\* or UpdateUser asking for role admin, a forged or missing token included)
\* leaves one behind.
C24_NoEscalation ==
    /\ C24_NoAdmin => []C24_NoAdmin
    /\ []C24_NoRequestEscalates
\* without any admin, a user asks for role admin by UpdateUser and is refused,
\* and a registration asking for role admin is accepted
C24_Witness ==
    /\ C24_NoAdmin
    /\ \E t \in Principals :
           /\ ~users[t.user_id].deleted
           /\ Status(C20_Update(t, t.user_id, [NoBody EXCEPT !.role = AdminRole])) = "Forbidden"
    /\ \E b \in C17_Bodies : b.role = AdminRole /\ Status(C17_Register(b)) = "Created"

(* C25 *)
\* the store st2 keeps the ids of the rows of the current store, and the
\* owner of every restaurant
C25_KeepsOwners(st2) ==
    /\ Len(st2.users) >= Len(users)
    /\ Len(st2.restaurants) >= Len(restaurants)
    /\ \A i \in 1..Len(users) : st2.users[i].id = users[i].id
    /\ \A i \in 1..Len(restaurants) :
           /\ st2.restaurants[i].id = restaurants[i].id
           /\ st2.restaurants[i].user_id = restaurants[i].user_id
C25_Step == C25_KeepsOwners([users |-> users', restaurants |-> restaurants'])

\* C25: no request changes the user_id of a restaurant that exists, nor the
\* id of a restaurant or of a user: this holds for every request of every
\* principal in every reachable state, and so along every sequence of them.
C25_OwnerNeverChanges ==
    /\ [](\A c \in C22_Requests : C25_KeepsOwners(StoreAfter(c)))
    /\ [][C25_Step]_vars
\* a renamed restaurant whose owner is deleted is updated by another principal
C25_Witness ==
    \E rid \in LiveRestaurants, t \in Principals :
        /\ restaurants[rid].name = "r2"
        /\ users[restaurants[rid].user_id].deleted
        /\ t.user_id # restaurants[rid].user_id
        /\ \E b \in AllUpdateRestaurantBodies :
               /\ b.description # ""
               /\ Status(C23_UpdateRestaurant(t, rid, b)) = "OK"

====
